---- MODULE Spec2Model ----
(***************************************************************************)
(* Model of the migration engine of the Cloudflare DNS migration tool:     *)
(* the in-memory store (MemStorage), the HTTP handlers that touch it, and  *)
(* processMigration, the asynchronous per-job loop.  processMigration is   *)
(* modelled one step per await: a step runs from the resumption of one     *)
(* await to the call whose promise the next await waits for (an async      *)
(* MemStorage method runs its body synchronously when it is called, so its *)
(* effect belongs to the step that calls it).                              *)
(***************************************************************************)
EXTENDS Integers, Sequences, FiniteSets, TLC

\* ------------------------------------------------------------------ bounds
\* the work the model lets the server accept: one unit per job, per submitted record
\* position, per scan and per backup
MaxWork == 4

\* ------------------------------------------------------------- input sets
RecordIds == {1, 2}
OldIps == {"", "10.0.0.1"}
NewIps == {"", "10.0.0.2"}
ScanContents == {"10.0.0.1"}
\* error.message of a rejected update call ("" stands for an empty or missing message)
ErrorMessages == {"", "Cloudflare API error: 500"}

Null == "null"
DateSet == "date"

SeqsUpTo(S, n) == UNION {[1..k -> S] : k \in 0..(IF n < 0 THEN 0 ELSE n)}

\* req.body.recordIds: an array of at most n ids, or a value that is not an array
RecordIdInputs(n) == [isArray : {TRUE}, items : SeqsUpTo(RecordIds, n)]
                       \cup {[isArray |-> FALSE, items |-> <<>>]}

\* a DnsRecord as the scan builds it from the provider's listing; the fields other
\* than content are fixed per record id
Snapshot(id, content) ==
    [zoneId |-> "zone", type |-> "A", name |-> <<"host", id>>, content |-> content,
     ttl |-> 300, proxied |-> (id % 2 = 0)]

\* the listings a scan can bring back: any subset of the ids, each with a content
Listings ==
    UNION {{[r \in S |-> Snapshot(r, c[r])] : c \in [S -> ScanContents]} :
           S \in SUBSET RecordIds}

VARIABLES
    apiConfiguration,         \* MemStorage.apiConfiguration: TRUE iff defined
    heap,                     \* DnsRecord objects, grouped by the array that holds them
    dnsRecords,               \* MemStorage.dnsRecords: index in heap of the objects the Map holds
    migrationJobs,            \* MemStorage.migrationJobs: job id -> MigrationJob
    migrationRecordStatuses,  \* MemStorage.migrationRecordStatuses: <<jobId, recordId>> -> status
    backups,                  \* MemStorage.backups
    activityLog,              \* MemStorage.activityLog, newest first
    proc,                     \* one processMigration activation per job
    res,                      \* the response a migration endpoint sent in the last step, if any
    scans,                    \* number of scan requests served so far
    remote                    \* the content the provider holds for each record id

vars == <<apiConfiguration, heap, dnsRecords, migrationJobs, migrationRecordStatuses,
          backups, activityLog, proc, res, scans, remote>>

store == <<apiConfiguration, heap, dnsRecords, migrationJobs, migrationRecordStatuses,
           backups, activityLog>>

\* ------------------------------------------------------------ MemStorage
MaxLogEntries == 100

Entry(type, message, nums, strs) ==
    [type |-> type, message |-> message, nums |-> nums, strs |-> strs]

\* a variant that never truncates the log
addActivityLogEntryUncapped(log, entry) == <<entry>> \o log

\* a variant that pushes the new entry to the end of the log
addActivityLogEntryAppending(log, entry) ==
    LET l == log \o <<entry>>
    IN  IF Len(l) > MaxLogEntries THEN SubSeq(l, 1, MaxLogEntries) ELSE l

\* addActivityLogEntry: unshift, then keep the first 100
addActivityLogEntry(log, entry) ==
    LET l == <<entry>> \o log
    IN  IF Len(l) > MaxLogEntries THEN SubSeq(l, 1, MaxLogEntries) ELSE l

\* getActivityLog(limit): slice(0, limit), for limit >= 0
getActivityLog(log, limit) ==
    SubSeq(log, 1, IF limit < Len(log) THEN limit ELSE Len(log))

\* a variant that creates the job already running
createMigrationJobRunning(oldIp, newIp, totalRecords) ==
    [oldIp |-> oldIp, newIp |-> newIp, totalRecords |-> totalRecords,
     completedRecords |-> 0, failedRecords |-> 0, status |-> "running",
     completedAt |-> Null]

\* createMigrationJob: the new MigrationJob
createMigrationJob(oldIp, newIp, totalRecords) ==
    [oldIp |-> oldIp, newIp |-> newIp, totalRecords |-> totalRecords,
     completedRecords |-> 0, failedRecords |-> 0, status |-> "pending",
     completedAt |-> Null]

\* a variant that adds the arguments to the stored counters instead of storing them
updateMigrationJobProgressAdding(jobs, jobId, completed, failed) ==
    IF jobId \in DOMAIN jobs
    THEN [jobs EXCEPT ![jobId].completedRecords = @ + completed,
                      ![jobId].failedRecords = @ + failed]
    ELSE jobs

\* updateMigrationJobProgress
updateMigrationJobProgress(jobs, jobId, completed, failed) ==
    IF jobId \in DOMAIN jobs
    THEN [jobs EXCEPT ![jobId].completedRecords = completed,
                      ![jobId].failedRecords = failed]
    ELSE jobs

\* a variant that stores the status only when it is a final one
updateMigrationJobStatusFinalOnly(jobs, jobId, status) ==
    IF jobId \in DOMAIN jobs /\ (status = "completed" \/ status = "failed")
    THEN [jobs EXCEPT ![jobId].status = status, ![jobId].completedAt = DateSet]
    ELSE jobs

\* a variant that stamps completedAt only when the job completes
updateMigrationJobStatusCompletedOnly(jobs, jobId, status) ==
    IF jobId \in DOMAIN jobs
    THEN [jobs EXCEPT ![jobId].status = status,
                      ![jobId].completedAt = IF status = "completed" THEN DateSet ELSE @]
    ELSE jobs

\* updateMigrationJobStatus
updateMigrationJobStatus(jobs, jobId, status) ==
    IF jobId \in DOMAIN jobs
    THEN [jobs EXCEPT ![jobId].status = status,
                      ![jobId].completedAt =
                          IF status = "completed" \/ status = "failed" THEN DateSet ELSE @]
    ELSE jobs

\* a variant that names a status by its record id alone
StatusIdByRecord(jobId, recordId) == <<0, recordId>>

\* the id `${job.id}-${recordId}` of a record status
StatusId(jobId, recordId) == <<jobId, recordId>>

\* saveMigrationRecordStatus: Map.set of every status, in order (a later one with
\* the same id replaces an earlier one)
RECURSIVE saveMigrationRecordStatus(_, _)
saveMigrationRecordStatus(statuses, new) ==
    IF new = <<>> THEN statuses
    ELSE LET s == Head(new)
             k == StatusId(s.jobId, s.recordId)
             rest == [x \in DOMAIN statuses \ {k} |-> statuses[x]]
         IN  saveMigrationRecordStatus((k :> s) @@ rest, Tail(new))

\* getMigrationRecordStatuses(jobId): the ids of the job's statuses
getMigrationRecordStatuses(statuses, jobId) ==
    {k \in DOMAIN statuses : statuses[k].jobId = jobId}

\* updateMigrationRecordStatus: errorMessage || null
updateMigrationRecordStatus(statuses, id, status, errorMessage) ==
    IF id \in DOMAIN statuses
    THEN [statuses EXCEPT ![id].status = status,
                          ![id].errorMessage =
                              IF errorMessage = "" THEN Null ELSE errorMessage]
    ELSE statuses

\* a variant that passes the raised message on as it is, empty or not
ErrorTextRaw(message) == message

\* error?.message || 'Unknown error'
ErrorText(message) == IF message = "" THEN "Unknown error" ELSE message

\* getDnsRecords(): the record objects the Map holds
getDnsRecords(h, d) == h[d]

\* ------------------------------------------------------------ responses
NoProgress ==
    [jobId |-> 0, totalRecords |-> 0, completedRecords |-> 0, failedRecords |-> 0,
     processingRecords |-> 0, status |-> Null, progressPercentage |-> 0]

Response(status, message, jobId, progress) ==
    [status |-> status, message |-> message, jobId |-> jobId, progress |-> progress]

\* no response is sent by the step
NoResponse == Response(0, "none", 0, NoProgress)

\* ---- IEEE-754 binary64 arithmetic, as `/`, `*` and Math.round perform it.
\* A positive double is [top, limbs, exp]: its 53-bit significand is top (1) followed
\* by four limbs of LimbBits bits each, read as the binary fraction top.limbs, and its
\* value is that fraction times 2^exp.  Zero is [top |-> 0, ..].
LimbBits == 13
LimbBase == 8192

RECURSIVE Pow2(_)
Pow2(k) == IF k <= 0 THEN 1 ELSE 2 * Pow2(k - 1)

\* the number of bits of an integer n >= 1
RECURSIVE BitLength(_)
BitLength(n) == IF n <= 1 THEN 1 ELSE 1 + BitLength(n \div 2)

\* carry propagation: the limbs (each possibly >= LimbBase) brought back under
\* LimbBase, the carry out of the first limb added to top
RECURSIVE Propagate(_, _, _)
Propagate(top, limbs, carry) ==
    IF limbs = <<>> THEN [top |-> top + carry, limbs |-> <<>>]
    ELSE LET n == Len(limbs)
             v == limbs[n] + carry
             hi == Propagate(top, SubSeq(limbs, 1, n - 1), v \div LimbBase)
         IN  [top |-> hi.top, limbs |-> Append(hi.limbs, v % LimbBase)]

\* n * 2^a / (t * 2^b) with t * 2^b <= n * 2^a < 2 * t * 2^b, for n, t >= 1
RECURSIVE Normalize(_, _, _)
Normalize(n, t, k) ==
    IF n < t THEN Normalize(2 * n, t, k - 1)
    ELSE IF n >= 2 * t THEN Normalize(n, 2 * t, k + 1)
    ELSE [n |-> n, t |-> t, exp |-> k]

\* the next limb of the quotient of r / t, and the remainder left, for 0 <= r < t
QuotLimb(r, t) == [digit |-> (r * LimbBase) \div t, rem |-> (r * LimbBase) % t]

\* n / t, for integers n >= 0 and t >= 1: the quotient rounded to 53 bits, to nearest,
\* ties to even
Divide(n, t) ==
    IF n = 0 THEN [top |-> 0, limbs |-> <<0, 0, 0, 0>>, exp |-> 0]
    ELSE LET s == Normalize(n, t, 0)
             q1 == QuotLimb(s.n - s.t, s.t)
             q2 == QuotLimb(q1.rem, s.t)
             q3 == QuotLimb(q2.rem, s.t)
             q4 == QuotLimb(q3.rem, s.t)
             guard == (2 * q4.rem) \div s.t
             sticky == (2 * q4.rem) % s.t # 0
             up == guard = 1 /\ (sticky \/ q4.digit % 2 = 1)
             m == Propagate(1, <<q1.digit, q2.digit, q3.digit, q4.digit>>,
                            IF up THEN 1 ELSE 0)
         IN  IF m.top = 2
             THEN [top |-> 1, limbs |-> <<0, 0, 0, 0>>, exp |-> s.exp + 1]
             ELSE [top |-> 1, limbs |-> m.limbs, exp |-> s.exp]

\* x * m for a double x and an integer 1 <= m < LimbBase: the exact product, with
\* top holding the bits before the binary point, rounded to 53 bits
Multiply(x, m) ==
    IF x.top = 0 THEN x
    ELSE LET p == Propagate(x.top * m, [i \in 1..4 |-> x.limbs[i] * m], 0)
             drop == BitLength(p.top) - 1      \* the bits beyond the 53rd
             unit == Pow2(drop)
             rem == p.limbs[4] % unit
             odd == (p.limbs[4] \div unit) % 2 = 1
             up == drop > 0 /\ (2 * rem > unit \/ (2 * rem = unit /\ odd))
             last == p.limbs[4] - rem + (IF up THEN unit ELSE 0)
             r == Propagate(p.top, [p.limbs EXCEPT ![4] = last], 0)
         IN  [top |-> r.top, limbs |-> r.limbs, exp |-> x.exp]

\* Math.round(x): the integer nearest to x, a tie going up; for 0 <= x < 2^30 and
\* -30 <= x.exp < LimbBits
MathRound(x) ==
    IF x.exp < 0
    THEN (x.top \div Pow2(-x.exp)) + ((x.top \div Pow2(-x.exp - 1)) % 2)
    ELSE x.top * Pow2(x.exp)
           + (x.limbs[1] \div Pow2(LimbBits - x.exp))
           + ((x.limbs[1] \div Pow2(LimbBits - x.exp - 1)) % 2)

\* Math.round(((completed + failed) / total) * 100)
ProgressPercentage(completed, failed, total) ==
    MathRound(Multiply(Divide(completed + failed, total), 100))

\* GET /api/migration/:jobId/progress: the progress object of a stored job
Progress(jobId, job) ==
    [jobId |-> jobId,
     totalRecords |-> job.totalRecords,
     completedRecords |-> job.completedRecords,
     failedRecords |-> job.failedRecords,
     processingRecords |-> job.totalRecords - job.completedRecords - job.failedRecords,
     status |-> job.status,
     progressPercentage |->
         ProgressPercentage(job.completedRecords, job.failedRecords, job.totalRecords)]

\* ------------------------------------------------------------------ Init
Init ==
    /\ apiConfiguration = FALSE
    /\ heap = << <<>> >>
    /\ dnsRecords = 1
    /\ migrationJobs = <<>>
    /\ migrationRecordStatuses = <<>>
    /\ backups = <<>>
    /\ activityLog = <<>>
    /\ proc = <<>>
    /\ res = NoResponse
    /\ scans = 0
    /\ remote = [r \in RecordIds |-> "10.0.0.1"]

\* ------------------------------------------------------------- handlers
RECURSIVE TotalRecords(_)
TotalRecords(jobs) ==
    IF jobs = <<>> THEN 0 ELSE Head(jobs).totalRecords + TotalRecords(Tail(jobs))

\* the work accepted so far
Work == Len(migrationJobs) + TotalRecords(migrationJobs) + scans + Len(backups)

\* POST /api/config
SaveConfig(valid) ==
    /\ IF valid
       THEN /\ apiConfiguration' = TRUE
            /\ res' = NoResponse
       ELSE /\ apiConfiguration' = apiConfiguration
            /\ res' = NoResponse
    /\ UNCHANGED <<heap, dnsRecords, migrationJobs, migrationRecordStatuses, backups,
                   activityLog, proc, scans, remote>>

\* POST /api/dns/scan; listing is what the provider returns, ok whether getZones succeeds
ScanDns(listing, ok) ==
    /\ Work < MaxWork
    /\ IF ~apiConfiguration
       THEN /\ res' = NoResponse
            /\ UNCHANGED <<heap, dnsRecords, activityLog, scans>>
       ELSE IF ok
       THEN /\ scans' = scans + 1
            /\ heap' = Append(heap, listing)
            /\ dnsRecords' = Len(heap) + 1
            /\ activityLog' = addActivityLogEntry(activityLog,
                   Entry("success", "Scanned DNS records", <<Cardinality(DOMAIN listing)>>, <<>>))
            /\ res' = NoResponse
       ELSE /\ scans' = scans + 1
            /\ activityLog' = addActivityLogEntry(activityLog,
                   Entry("error", "DNS scan failed", <<>>, <<>>))
            /\ res' = NoResponse
            /\ UNCHANGED <<heap, dnsRecords>>
    /\ UNCHANGED <<apiConfiguration, migrationJobs, migrationRecordStatuses, backups, proc,
                   remote>>

\* POST /api/backup; all: no recordIds array in the body, else only the ids in sel
CreateBackup(all, sel) ==
    /\ Work < MaxWork
    /\ scans' = scans
    /\ LET allRecords == getDnsRecords(heap, dnsRecords)
           keep == IF all THEN DOMAIN allRecords ELSE DOMAIN allRecords \cap sel
           records == [r \in keep |-> allRecords[r]]
       IN  /\ backups' = Append(backups,
                             [recordCount |-> Cardinality(keep), data |-> records])
           /\ activityLog' = addActivityLogEntry(activityLog,
                  Entry("success", "Created backup", <<Cardinality(keep)>>, <<>>))
    /\ res' = NoResponse
    /\ UNCHANGED <<apiConfiguration, heap, dnsRecords, migrationJobs,
                   migrationRecordStatuses, proc, remote>>

\* DELETE /api/activity
ClearActivity ==
    /\ activityLog' = <<>>
    /\ res' = NoResponse
    /\ UNCHANGED <<apiConfiguration, heap, dnsRecords, migrationJobs,
                   migrationRecordStatuses, backups, proc, scans, remote>>

\* GET /api/activity: limit = req.query.limit ? parseInt(req.query.limit) : 50; the
\* query either has no limit or carries the decimal text of query.value
DefaultLimit == 50

GetActivity(query) ==
    /\ LET limit == IF query.present THEN query.value ELSE DefaultLimit
       IN  res' = Response(200, "activity", 0,
                           [limit |-> limit, entries |-> getActivityLog(activityLog, limit)])
    /\ UNCHANGED <<apiConfiguration, heap, dnsRecords, migrationJobs,
                   migrationRecordStatuses, backups, activityLog, proc, scans, remote>>

\* a variant of the test below that lets an empty array through
InvalidStartNoLength(oldIp, newIp, recordIds) ==
    \/ oldIp = ""
    \/ newIp = ""
    \/ ~recordIds.isArray

\* the test of POST /api/migration/start:
\* !oldIp || !newIp || !Array.isArray(recordIds) || recordIds.length === 0
InvalidStart(oldIp, newIp, recordIds) ==
    \/ oldIp = ""
    \/ newIp = ""
    \/ ~recordIds.isArray
    \/ Len(recordIds.items) = 0

\* recordIds.map(recordId => ({id, jobId, recordId, status: 'pending', errorMessage: null}))
InitialStatuses(jobId, items) ==
    [k \in 1..Len(items) |->
        [jobId |-> jobId, recordId |-> items[k], status |-> "pending",
         errorMessage |-> Null]]

\* processMigration(job.id, recordIds, oldIp, newIp), run up to its first await:
\* storage.getApiConfiguration() has been called and its promise is awaited
NewProc(items, oldIp, newIp, config) ==
    [pc |-> "awaitConfig", recordIds |-> items, oldIp |-> oldIp, newIp |-> newIp,
     config |-> config, i |-> 0, completed |-> 0, failed |-> 0, allRecords |-> 0,
     err |-> "", calls |-> <<>>, missing |-> 0]

\* a variant that marks the job running before it responds
StartMigrationEager(oldIp, newIp, recordIds) ==
    IF InvalidStart(oldIp, newIp, recordIds)
    THEN /\ res' = Response(400, "Missing required parameters", 0, NoProgress)
         /\ UNCHANGED <<apiConfiguration, heap, dnsRecords, migrationJobs,
                        migrationRecordStatuses, backups, activityLog, proc, scans, remote>>
    ELSE LET jobId == Len(migrationJobs) + 1
             items == recordIds.items
             job == createMigrationJob(oldIp, newIp, Len(items))
         IN  /\ Work + 1 + Len(items) <= MaxWork
             /\ migrationJobs' = Append(migrationJobs, [job EXCEPT !.status = "running"])
             /\ migrationRecordStatuses' =
                    saveMigrationRecordStatus(migrationRecordStatuses,
                                              InitialStatuses(jobId, items))
             /\ activityLog' = addActivityLogEntry(activityLog,
                    Entry("info", "Starting migration for DNS records",
                          <<Len(items)>>, <<oldIp, newIp>>))
             /\ proc' = Append(proc, NewProc(items, oldIp, newIp, apiConfiguration))
             /\ res' = Response(200, "started", jobId, NoProgress)
             /\ UNCHANGED <<apiConfiguration, heap, dnsRecords, backups, scans, remote>>

\* POST /api/migration/start
StartMigration(oldIp, newIp, recordIds) ==
    IF InvalidStart(oldIp, newIp, recordIds)
    THEN /\ res' = Response(400, "Missing required parameters", 0, NoProgress)
         /\ UNCHANGED <<apiConfiguration, heap, dnsRecords, migrationJobs,
                        migrationRecordStatuses, backups, activityLog, proc, scans, remote>>
    ELSE LET jobId == Len(migrationJobs) + 1
             items == recordIds.items
         IN  /\ Work + 1 + Len(items) <= MaxWork
             /\ migrationJobs' =
                    Append(migrationJobs, createMigrationJob(oldIp, newIp, Len(items)))
             /\ migrationRecordStatuses' =
                    saveMigrationRecordStatus(migrationRecordStatuses,
                                              InitialStatuses(jobId, items))
             /\ activityLog' = addActivityLogEntry(activityLog,
                    Entry("info", "Starting migration for DNS records",
                          <<Len(items)>>, <<oldIp, newIp>>))
             /\ proc' = Append(proc, NewProc(items, oldIp, newIp, apiConfiguration))
             /\ res' = Response(200, "started", jobId, NoProgress)
             /\ UNCHANGED <<apiConfiguration, heap, dnsRecords, backups, scans, remote>>

\* a variant that marks the job completed when it reports all records done
GetProgressFinalizing(jobId) ==
    /\ IF jobId \in DOMAIN migrationJobs
       THEN LET job == migrationJobs[jobId]
                all == job.completedRecords + job.failedRecords = job.totalRecords
                jobs == IF all THEN updateMigrationJobStatus(migrationJobs, jobId, "completed")
                        ELSE migrationJobs
            IN  /\ res' = Response(200, "progress", jobId, Progress(jobId, jobs[jobId]))
                /\ migrationJobs' = jobs
       ELSE /\ res' = Response(404, "Migration job not found", 0, NoProgress)
            /\ migrationJobs' = migrationJobs
    /\ UNCHANGED <<apiConfiguration, heap, dnsRecords, migrationRecordStatuses, backups,
                   activityLog, proc, scans, remote>>

\* a variant that looks the job up only among the jobs whose processing has begun
GetProgressStartedOnly(jobId) ==
    /\ IF jobId \in DOMAIN migrationJobs /\ migrationJobs[jobId].status # "pending"
       THEN res' = Response(200, "progress", jobId, Progress(jobId, migrationJobs[jobId]))
       ELSE res' = Response(404, "Migration job not found", 0, NoProgress)
    /\ UNCHANGED <<apiConfiguration, heap, dnsRecords, migrationJobs,
                   migrationRecordStatuses, backups, activityLog, proc, scans, remote>>

\* GET /api/migration/:jobId/progress
GetProgress(jobId) ==
    /\ IF jobId \in DOMAIN migrationJobs
       THEN res' = Response(200, "progress", jobId, Progress(jobId, migrationJobs[jobId]))
       ELSE res' = Response(404, "Migration job not found", 0, NoProgress)
    /\ UNCHANGED <<apiConfiguration, heap, dnsRecords, migrationJobs,
                   migrationRecordStatuses, backups, activityLog, proc, scans, remote>>

\* a variant that returns after the last record without marking the job completed
LoopHeadNoCompletion(j, q) ==
    IF q.i <= Len(q.recordIds)
    THEN /\ migrationRecordStatuses' =
                updateMigrationRecordStatus(migrationRecordStatuses,
                    StatusId(j, q.recordIds[q.i]), "processing", "")
         /\ proc' = [proc EXCEPT ![j] = [q EXCEPT !.pc = "awaitProcessing"]]
         /\ migrationJobs' = migrationJobs
    ELSE /\ proc' = [proc EXCEPT ![j] = [q EXCEPT !.pc = "done"]]
         /\ UNCHANGED <<migrationJobs, migrationRecordStatuses>>

\* ------------------------------------------------ processMigration
\* the head of the for loop for the process state q (i already advanced): mark the
\* next record processing, or, past the last one, mark the job completed
LoopHead(j, q) ==
    IF q.i <= Len(q.recordIds)
    THEN /\ migrationRecordStatuses' =
                updateMigrationRecordStatus(migrationRecordStatuses,
                    StatusId(j, q.recordIds[q.i]), "processing", "")
         /\ proc' = [proc EXCEPT ![j] = [q EXCEPT !.pc = "awaitProcessing"]]
         /\ migrationJobs' = migrationJobs
    ELSE /\ migrationJobs' = updateMigrationJobStatus(migrationJobs, j, "completed")
         /\ proc' = [proc EXCEPT ![j] = [q EXCEPT !.pc = "awaitJobCompleted"]]
         /\ migrationRecordStatuses' = migrationRecordStatuses

\* the inner catch, entered with error.message = message: mark the record failed
InnerCatch(j, q, message) ==
    /\ migrationRecordStatuses' =
           updateMigrationRecordStatus(migrationRecordStatuses,
               StatusId(j, q.recordIds[q.i]), "failed", ErrorText(message))
    /\ proc' = [proc EXCEPT ![j] = [q EXCEPT !.pc = "awaitFailed", !.err = message]]

\* a variant without the `if (!config)` test
ResumeConfigUnchecked(j) ==
    /\ res' = NoResponse
    /\ proc[j].pc = "awaitConfig"
    /\ migrationJobs' = updateMigrationJobStatus(migrationJobs, j, "running")
    /\ proc' = [proc EXCEPT ![j].pc = "awaitRunning"]
    /\ UNCHANGED <<apiConfiguration, heap, dnsRecords, migrationRecordStatuses, backups,
                   activityLog, scans, remote>>

\* after `await storage.getApiConfiguration()`: throw into the outer catch, or go running
ResumeConfig(j) ==
    /\ res' = NoResponse
    /\ proc[j].pc = "awaitConfig"
    /\ IF ~proc[j].config
       THEN /\ migrationJobs' = updateMigrationJobStatus(migrationJobs, j, "failed")
            /\ proc' = [proc EXCEPT ![j].pc = "awaitJobFailed",
                                    ![j].err = "No API configuration found"]
       ELSE /\ migrationJobs' = updateMigrationJobStatus(migrationJobs, j, "running")
            /\ proc' = [proc EXCEPT ![j].pc = "awaitRunning"]
    /\ UNCHANGED <<apiConfiguration, heap, dnsRecords, migrationRecordStatuses, backups,
                   activityLog, scans, remote>>

\* after `await updateMigrationJobStatus(jobId, "running")`: completed = failed = 0,
\* enter the loop
ResumeRunning(j) ==
    /\ res' = NoResponse
    /\ proc[j].pc = "awaitRunning"
    /\ LoopHead(j, [proc[j] EXCEPT !.completed = 0, !.failed = 0, !.i = 1])
    /\ UNCHANGED <<apiConfiguration, heap, dnsRecords, backups, activityLog, scans, remote>>

\* after `await updateMigrationRecordStatus(.., "processing")`: call getDnsRecords()
ResumeProcessing(j) ==
    /\ res' = NoResponse
    /\ proc[j].pc = "awaitProcessing"
    /\ proc' = [proc EXCEPT ![j].pc = "awaitGetRecords", ![j].allRecords = dnsRecords]
    /\ UNCHANGED <<apiConfiguration, heap, dnsRecords, migrationJobs,
                   migrationRecordStatuses, backups, activityLog, scans, remote>>

\* cfApi.updateDnsRecord(record.zoneId, record.id, {type, name, content: newIp,
\* ttl, proxied}): the call as issued, its outcome not yet known
UpdateCall(record, recordId, newIp) ==
    [recordId |-> recordId, zoneId |-> record.zoneId, type |-> record.type,
     name |-> record.name, content |-> newIp, ttl |-> record.ttl,
     proxied |-> record.proxied, outcome |-> "pending"]

\* a variant without the `if (!record)` test: reading record.zoneId of undefined throws
ResumeGetRecordsNoTest(j) ==
    /\ res' = NoResponse
    /\ proc[j].pc = "awaitGetRecords"
    /\ LET q == proc[j]
           recordId == q.recordIds[q.i]
       IN  IF recordId \notin DOMAIN heap[q.allRecords]
           THEN InnerCatch(j, [q EXCEPT !.missing = @ + 1],
                           "Cannot read properties of undefined")
           ELSE /\ proc' = [proc EXCEPT ![j].pc = "awaitUpdateCall",
                                        ![j].calls = Append(@,
                                            UpdateCall(heap[q.allRecords][recordId],
                                                       recordId, q.newIp))]
                /\ migrationRecordStatuses' = migrationRecordStatuses
    /\ UNCHANGED <<apiConfiguration, heap, dnsRecords, migrationJobs, backups,
                   activityLog, scans, remote>>

\* a variant that looks for a record with this id whose content is still oldIp
ResumeGetRecordsMatchingOld(j) ==
    /\ res' = NoResponse
    /\ proc[j].pc = "awaitGetRecords"
    /\ LET q == proc[j]
           recordId == q.recordIds[q.i]
       IN  IF \/ recordId \notin DOMAIN heap[q.allRecords]
              \/ heap[q.allRecords][recordId].content # q.oldIp
           THEN InnerCatch(j, [q EXCEPT !.missing = @ + 1], "Record not found")
           ELSE /\ proc' = [proc EXCEPT ![j].pc = "awaitUpdateCall",
                                        ![j].calls = Append(@,
                                            UpdateCall(heap[q.allRecords][recordId],
                                                       recordId, q.newIp))]
                /\ migrationRecordStatuses' = migrationRecordStatuses
    /\ UNCHANGED <<apiConfiguration, heap, dnsRecords, migrationJobs, backups,
                   activityLog, scans, remote>>

\* after `await storage.getDnsRecords()`: find the record; throw "Record not found",
\* or send the update call
ResumeGetRecords(j) ==
    /\ res' = NoResponse
    /\ proc[j].pc = "awaitGetRecords"
    /\ LET q == proc[j]
           recordId == q.recordIds[q.i]
       IN  IF recordId \notin DOMAIN heap[q.allRecords]
           THEN InnerCatch(j, [q EXCEPT !.missing = @ + 1], "Record not found")
           ELSE /\ proc' = [proc EXCEPT ![j].pc = "awaitUpdateCall",
                                        ![j].calls = Append(@,
                                            UpdateCall(heap[q.allRecords][recordId],
                                                       recordId, q.newIp))]
                /\ migrationRecordStatuses' = migrationRecordStatuses
    /\ UNCHANGED <<apiConfiguration, heap, dnsRecords, migrationJobs, backups,
                   activityLog, scans, remote>>

\* the provider's records once it has served this update call: a call whose
\* response reports success has been applied, at the latest when the response
\* is handled
Applied(r, call) ==
    IF call.outcome = "applied" THEN r
    ELSE [r EXCEPT ![call.recordId] = call.content]

\* the provider serves the PATCH request of job j's outstanding update call; the
\* response is still on its way
ProviderApplies(j) ==
    /\ proc[j].pc = "awaitUpdateCall"
    /\ LET n == Len(proc[j].calls)
       IN  /\ proc[j].calls[n].outcome = "pending"
           /\ remote' = Applied(remote, proc[j].calls[n])
           /\ proc' = [proc EXCEPT ![j].calls[n].outcome = "applied"]
    /\ res' = NoResponse
    /\ UNCHANGED <<apiConfiguration, heap, dnsRecords, migrationJobs,
                   migrationRecordStatuses, backups, activityLog, scans>>

\* a variant that writes record.content and saves the listing before the outcome
\* of the update call is known
ResumeUpdateCallEager(j, ok, message) ==
    /\ res' = NoResponse
    /\ proc[j].pc = "awaitUpdateCall"
    /\ LET q == proc[j]
           recordId == q.recordIds[q.i]
           n == Len(q.calls)
       IN  /\ heap' = [heap EXCEPT ![q.allRecords][recordId].content = q.newIp]
           /\ dnsRecords' = q.allRecords
           /\ IF ok
              THEN /\ proc' = [proc EXCEPT ![j].pc = "awaitSaveRecords",
                                           ![j].calls[n].outcome = "ok"]
                   /\ migrationRecordStatuses' = migrationRecordStatuses
                   /\ remote' = Applied(remote, q.calls[n])
              ELSE /\ InnerCatch(j, [q EXCEPT !.calls[n].outcome = "error"], message)
                   /\ remote' = remote
    /\ UNCHANGED <<apiConfiguration, migrationJobs, backups, activityLog, scans>>

\* after `await cfApi.updateDnsRecord(..)`: on success record.content = newIp and
\* saveDnsRecords(allRecords); on an error with this message, the inner catch
ResumeUpdateCall(j, ok, message) ==
    /\ res' = NoResponse
    /\ proc[j].pc = "awaitUpdateCall"
    /\ LET q == proc[j]
           recordId == q.recordIds[q.i]
           n == Len(q.calls)
       IN  IF ok
           THEN /\ heap' = [heap EXCEPT ![q.allRecords][recordId].content = q.newIp]
                /\ dnsRecords' = q.allRecords
                /\ proc' = [proc EXCEPT ![j].pc = "awaitSaveRecords",
                                        ![j].calls[n].outcome = "ok"]
                /\ migrationRecordStatuses' = migrationRecordStatuses
                /\ remote' = Applied(remote, q.calls[n])
           ELSE /\ InnerCatch(j, [q EXCEPT !.calls[n].outcome = "error"], message)
                /\ UNCHANGED <<heap, dnsRecords, remote>>
    /\ UNCHANGED <<apiConfiguration, migrationJobs, backups, activityLog, scans>>

\* after `await storage.saveDnsRecords(allRecords)`: mark the record completed
ResumeSaveRecords(j) ==
    /\ res' = NoResponse
    /\ proc[j].pc = "awaitSaveRecords"
    /\ migrationRecordStatuses' =
           updateMigrationRecordStatus(migrationRecordStatuses,
               StatusId(j, proc[j].recordIds[proc[j].i]), "completed", "")
    /\ proc' = [proc EXCEPT ![j].pc = "awaitCompleted"]
    /\ UNCHANGED <<apiConfiguration, heap, dnsRecords, migrationJobs, backups,
                   activityLog, scans, remote>>

\* after `await updateMigrationRecordStatus(.., "completed")`: completed++, log success
ResumeCompleted(j) ==
    /\ res' = NoResponse
    /\ proc[j].pc = "awaitCompleted"
    /\ proc' = [proc EXCEPT ![j].pc = "awaitLogSuccess", ![j].completed = @ + 1]
    /\ activityLog' = addActivityLogEntry(activityLog,
           Entry("success", "Updated DNS record for", <<proc[j].recordIds[proc[j].i]>>,
                 <<proc[j].oldIp, proc[j].newIp>>))
    /\ UNCHANGED <<apiConfiguration, heap, dnsRecords, migrationJobs,
                   migrationRecordStatuses, backups, scans, remote>>

\* a variant in which a record's failure reaches the outer catch and fails the job
ResumeFailedAborting(j) ==
    /\ res' = NoResponse
    /\ proc[j].pc = "awaitFailed"
    /\ migrationJobs' = updateMigrationJobStatus(migrationJobs, j, "failed")
    /\ proc' = [proc EXCEPT ![j].pc = "awaitJobFailed", ![j].failed = @ + 1]
    /\ UNCHANGED <<apiConfiguration, heap, dnsRecords, migrationRecordStatuses, backups,
                   activityLog, scans, remote>>

\* a variant that counts a failed record without writing its activity entry
ResumeFailedSilent(j) ==
    /\ res' = NoResponse
    /\ proc[j].pc = "awaitFailed"
    /\ proc' = [proc EXCEPT ![j].pc = "awaitLogError", ![j].failed = @ + 1]
    /\ UNCHANGED <<apiConfiguration, heap, dnsRecords, migrationJobs,
                   migrationRecordStatuses, backups, activityLog, scans, remote>>

\* after `await updateMigrationRecordStatus(.., "failed", ..)`: failed++, log error
ResumeFailed(j) ==
    /\ res' = NoResponse
    /\ proc[j].pc = "awaitFailed"
    /\ proc' = [proc EXCEPT ![j].pc = "awaitLogError", ![j].failed = @ + 1]
    /\ activityLog' = addActivityLogEntry(activityLog,
           Entry("error", "Failed to update DNS record", <<>>,
                 <<ErrorText(proc[j].err)>>))
    /\ UNCHANGED <<apiConfiguration, heap, dnsRecords, migrationJobs,
                   migrationRecordStatuses, backups, scans, remote>>

\* a variant that does not write the counters to the job after a record
ResumeLogRecordUnpersisted(j) ==
    /\ res' = NoResponse
    /\ proc[j].pc \in {"awaitLogSuccess", "awaitLogError"}
    /\ proc' = [proc EXCEPT ![j].pc = "awaitProgress"]
    /\ UNCHANGED <<apiConfiguration, heap, dnsRecords, migrationJobs,
                   migrationRecordStatuses, backups, activityLog, scans, remote>>

\* after the `await addActivityLogEntry` of either branch: persist the counters
ResumeLogRecord(j) ==
    /\ res' = NoResponse
    /\ proc[j].pc \in {"awaitLogSuccess", "awaitLogError"}
    /\ migrationJobs' = updateMigrationJobProgress(migrationJobs, j,
                                                   proc[j].completed, proc[j].failed)
    /\ proc' = [proc EXCEPT ![j].pc = "awaitProgress"]
    /\ UNCHANGED <<apiConfiguration, heap, dnsRecords, migrationRecordStatuses, backups,
                   activityLog, scans, remote>>

\* after `await updateMigrationJobProgress(..)`: next iteration, or leave the loop
ResumeProgress(j) ==
    /\ res' = NoResponse
    /\ proc[j].pc = "awaitProgress"
    /\ LoopHead(j, [proc[j] EXCEPT !.i = @ + 1])
    /\ UNCHANGED <<apiConfiguration, heap, dnsRecords, backups, activityLog, scans, remote>>

\* after `await updateMigrationJobStatus(jobId, "completed")`: log the summary
ResumeJobCompleted(j) ==
    /\ res' = NoResponse
    /\ proc[j].pc = "awaitJobCompleted"
    /\ activityLog' = addActivityLogEntry(activityLog,
           Entry("success", "Migration completed",
                 <<proc[j].completed, proc[j].failed>>, <<>>))
    /\ proc' = [proc EXCEPT ![j].pc = "awaitLogSummary"]
    /\ UNCHANGED <<apiConfiguration, heap, dnsRecords, migrationJobs,
                   migrationRecordStatuses, backups, scans, remote>>

\* after `await updateMigrationJobStatus(jobId, "failed")` in the outer catch: log it
ResumeJobFailed(j) ==
    /\ res' = NoResponse
    /\ proc[j].pc = "awaitJobFailed"
    /\ activityLog' = addActivityLogEntry(activityLog,
           Entry("error", "Migration failed", <<>>, <<ErrorText(proc[j].err)>>))
    /\ proc' = [proc EXCEPT ![j].pc = "awaitLogFailed"]
    /\ UNCHANGED <<apiConfiguration, heap, dnsRecords, migrationJobs,
                   migrationRecordStatuses, backups, scans, remote>>

\* after the last `await addActivityLogEntry`: processMigration returns
ResumeLast(j) ==
    /\ res' = NoResponse
    /\ proc[j].pc \in {"awaitLogSummary", "awaitLogFailed"}
    /\ proc' = [proc EXCEPT ![j].pc = "done"]
    /\ UNCHANGED <<apiConfiguration, heap, dnsRecords, migrationJobs,
                   migrationRecordStatuses, backups, activityLog, scans, remote>>

ProcessStep(j) ==
    \/ ResumeConfig(j)
    \/ ResumeRunning(j)
    \/ ResumeProcessing(j)
    \/ ResumeGetRecords(j)
    \/ \E ok \in BOOLEAN : \E message \in (IF ok THEN {""} ELSE ErrorMessages) :
           ResumeUpdateCall(j, ok, message)
    \/ ResumeSaveRecords(j)
    \/ ResumeCompleted(j)
    \/ ResumeFailed(j)
    \/ ResumeLogRecord(j)
    \/ ResumeProgress(j)
    \/ ResumeJobCompleted(j)
    \/ ResumeJobFailed(j)
    \/ ResumeLast(j)

\* ------------------------------------------------------------------ Next
Next ==
    \/ \E valid \in BOOLEAN : SaveConfig(valid)
    \/ \E listing \in Listings : \E ok \in BOOLEAN : ScanDns(listing, ok)
    \/ \E oldIp \in OldIps : \E newIp \in NewIps :
           \E recordIds \in RecordIdInputs(MaxWork - Work - 1) :
               StartMigration(oldIp, newIp, recordIds)
    \/ \E jobId \in 1..(Len(migrationJobs) + 1) : GetProgress(jobId)
    \/ \E j \in DOMAIN proc : ProcessStep(j)

Spec == Init /\ [][Next]_vars

\* ------------------------------------------- a long single migration
\* One job of BatchSize records, all found and all updated successfully, polled by
\* GetProgress: the state after POST /api/config, a scan that lists BatchSize records
\* and POST /api/migration/start for all of them.
BatchSize == 40

BatchIds == [k \in 1..BatchSize |-> k]

BatchListing == [r \in 1..BatchSize |-> Snapshot(r, "10.0.0.1")]

InitProgress ==
    /\ apiConfiguration = TRUE
    /\ heap = << <<>>, BatchListing >>
    /\ dnsRecords = 2
    /\ migrationJobs = <<createMigrationJob("10.0.0.1", "10.0.0.2", BatchSize)>>
    /\ migrationRecordStatuses = saveMigrationRecordStatus(<<>>, InitialStatuses(1, BatchIds))
    /\ backups = <<>>
    /\ activityLog =
           addActivityLogEntry(
               addActivityLogEntry(<<>>,
                   Entry("success", "Scanned DNS records", <<BatchSize>>, <<>>)),
               Entry("info", "Starting migration for DNS records", <<BatchSize>>,
                     <<"10.0.0.1", "10.0.0.2">>))
    /\ proc = <<NewProc(BatchIds, "10.0.0.1", "10.0.0.2", TRUE)>>
    /\ res = Response(200, "started", 1, NoProgress)
    /\ scans = 1
    /\ remote = [r \in 1..BatchSize |-> "10.0.0.1"]

NextProgress ==
    \/ ResumeConfig(1)
    \/ ResumeRunning(1)
    \/ ResumeProcessing(1)
    \/ ResumeGetRecords(1)
    \/ ResumeUpdateCall(1, TRUE, "")
    \/ ResumeSaveRecords(1)
    \/ ResumeCompleted(1)
    \/ ResumeLogRecord(1)
    \/ ResumeProgress(1)
    \/ ResumeJobCompleted(1)
    \/ ResumeLast(1)
    \/ GetProgress(1)

SpecProgress == InitProgress /\ [][NextProgress]_vars

\* ------------------------------------------------------------ properties
JobIds == DOMAIN migrationJobs

Final(status) == status = "completed" \/ status = "failed"

\* the update calls of job j that ended with this outcome
CallsWith(j, outcome) ==
    Cardinality({k \in 1..Len(proc[j].calls) : proc[j].calls[k].outcome = outcome})

\* processMigration of job j has left its for loop
LoopLeft(j) == proc[j].pc \in {"awaitJobCompleted", "awaitLogSummary", "done"}

\* C1: for every job completedRecords + failedRecords <= totalRecords in every
\* reachable state, and no step decreases completedRecords or failedRecords of a job
\* (nor removes the job).
C1_CountersBoundedMonotone ==
    /\ [](\A j \in JobIds :
            migrationJobs[j].completedRecords + migrationJobs[j].failedRecords
                <= migrationJobs[j].totalRecords)
    /\ [][\A j \in JobIds :
            /\ j \in DOMAIN migrationJobs'
            /\ migrationJobs'[j].completedRecords >= migrationJobs[j].completedRecords
            /\ migrationJobs'[j].failedRecords >= migrationJobs[j].failedRecords]_vars

\* a job whose two records are both accounted for, one completed and one failed
C1_Witness ==
    \E j \in JobIds :
        /\ migrationJobs[j].totalRecords = 2
        /\ migrationJobs[j].completedRecords = 1
        /\ migrationJobs[j].failedRecords = 1

\* the status changes a job may make according to the claim as stated
StatedStatusSteps ==
    {<<"pending", "running">>, <<"running", "completed">>, <<"running", "failed">>}

\* no step changes the status or the counters of a job whose status is final
FinalIsFrozen ==
    \A j \in JobIds :
        Final(migrationJobs[j].status) =>
            /\ migrationJobs'[j].status = migrationJobs[j].status
            /\ migrationJobs'[j].completedRecords = migrationJobs[j].completedRecords
            /\ migrationJobs'[j].failedRecords = migrationJobs[j].failedRecords

\* C2 as stated: a job's status changes only along pending -> running ->
\* {completed, failed}, and once it is completed or failed no step changes the job's
\* status, completedRecords or failedRecords.
C2_StatusPathStated ==
    [][/\ \A j \in JobIds :
             migrationJobs'[j].status # migrationJobs[j].status =>
                 <<migrationJobs[j].status, migrationJobs'[j].status>> \in StatedStatusSteps
       /\ FinalIsFrozen]_vars

\* C2 as amended: a job's status changes only by pending -> running, running ->
\* completed, running -> failed or pending -> failed (a job whose processing cannot
\* start fails without ever running), and once it is completed or failed no step
\* changes the job's status, completedRecords or failedRecords.
C2_StatusPathAmended ==
    [][/\ \A j \in JobIds :
             migrationJobs'[j].status # migrationJobs[j].status =>
                 <<migrationJobs[j].status, migrationJobs'[j].status>>
                     \in StatedStatusSteps \cup {<<"pending", "failed">>}
       /\ FinalIsFrozen]_vars

\* a job that failed at start-up and one that ran to completion, both finished
C2_Witness ==
    /\ \E j \in JobIds : migrationJobs[j].status = "failed" /\ proc[j].pc = "done"
    /\ \E j \in JobIds : migrationJobs[j].status = "completed" /\ proc[j].pc = "done"

\* C3: for every job an accepted StartMigration created, whatever list of ids it
\* was given, a RecordStatus changes only by pending -> processing, processing ->
\* completed or processing -> failed; one that is completed or failed is never
\* written to another status.
C3_RecordStatusPath ==
    [][\A k \in DOMAIN migrationRecordStatuses :
          /\ k \in DOMAIN migrationRecordStatuses'
          /\ migrationRecordStatuses'[k].status # migrationRecordStatuses[k].status =>
                 <<migrationRecordStatuses[k].status, migrationRecordStatuses'[k].status>>
                     \in {<<"pending", "processing">>, <<"processing", "completed">>,
                          <<"processing", "failed">>}]_vars

\* C4: a job whose processing starts with credentials never gets status failed,
\* whatever records fail; once its loop is over every list position has been
\* processed (an update call that returned, or a missing record), its status is
\* completed, completedRecords is the number of update calls that succeeded and
\* failedRecords the number of positions that failed (call error or record missing).
C4_FailuresIsolated ==
    \A j \in JobIds :
        proc[j].config =>
            /\ migrationJobs[j].status # "failed"
            /\ LoopLeft(j) =>
                   /\ migrationJobs[j].status = "completed"
                   /\ CallsWith(j, "pending") = 0
                   /\ Len(proc[j].calls) + proc[j].missing = Len(proc[j].recordIds)
                   /\ migrationJobs[j].completedRecords = CallsWith(j, "ok")
                   /\ migrationJobs[j].failedRecords
                          = CallsWith(j, "error") + proc[j].missing

\* a finished job of two records, one whose update call failed and one missing
C4_Witness ==
    \E j \in JobIds :
        /\ proc[j].config /\ proc[j].pc = "done"
        /\ migrationJobs[j].status = "completed"
        /\ migrationJobs[j].completedRecords = 0
        /\ CallsWith(j, "error") = 1
        /\ proc[j].missing = 1

\* the activity entry of the outer catch when no API configuration was found
StartupFailureEntry ==
    Entry("error", "Migration failed", <<>>, <<"No API configuration found">>)

\* C5: a job whose processing finds no API configuration goes to status failed with
\* completedAt set; none of its RecordStatus entries changes (all stay pending, no
\* errorMessage), both counters stay 0, it issues no update call, and its processing
\* writes exactly one activity entry, an error entry.
C5_StartupFailure ==
    /\ [](\A j \in JobIds :
            ~proc[j].config =>
                /\ migrationJobs[j].completedRecords = 0
                /\ migrationJobs[j].failedRecords = 0
                /\ proc[j].calls = <<>>
                /\ \A k \in getMigrationRecordStatuses(migrationRecordStatuses, j) :
                       /\ migrationRecordStatuses[k].status = "pending"
                       /\ migrationRecordStatuses[k].errorMessage = Null
                /\ proc[j].pc # "awaitConfig" =>
                       /\ migrationJobs[j].status = "failed"
                       /\ migrationJobs[j].completedAt = DateSet)
    /\ [][\A j \in JobIds :
            (~proc[j].config /\ proc'[j] # proc[j]) =>
                IF proc[j].pc = "awaitJobFailed"
                THEN activityLog' = <<StartupFailureEntry>> \o activityLog
                ELSE activityLog' = activityLog]_vars

\* a job that failed at start-up has finished, its error entry is in the log
C5_Witness ==
    \E j \in JobIds :
        /\ ~proc[j].config /\ proc[j].pc = "done"
        /\ \E n \in 1..Len(activityLog) : activityLog[n] = StartupFailureEntry

\* the requests C6 is about: an empty oldValue, an empty newValue, a recordIds that
\* is not a list, and an empty recordIds list
RejectedRequests ==
    {[oldIp |-> "", newIp |-> "10.0.0.2", recordIds |-> [isArray |-> TRUE, items |-> <<1>>]],
     [oldIp |-> "10.0.0.1", newIp |-> "", recordIds |-> [isArray |-> TRUE, items |-> <<1>>]],
     [oldIp |-> "10.0.0.1", newIp |-> "10.0.0.2",
      recordIds |-> [isArray |-> FALSE, items |-> <<>>]],
     [oldIp |-> "10.0.0.1", newIp |-> "10.0.0.2",
      recordIds |-> [isArray |-> TRUE, items |-> <<>>]]}

\* C6: StartMigration with an empty recordIds list, a recordIds that is no list, or an
\* empty oldValue or newValue answers 400 and changes nothing: no job, no
\* RecordStatus, no activity entry, no processing.
C6_InvalidRequestRejected ==
    [][res'.message \in {"started", "Missing required parameters"} =>
       \A r \in RejectedRequests :
          StartMigration(r.oldIp, r.newIp, r.recordIds) =>
              /\ res'.status = 400
              /\ UNCHANGED <<apiConfiguration, heap, dnsRecords, migrationJobs,
                             migrationRecordStatuses, backups, activityLog, proc>>]_vars

\* a request has just been rejected while a job is in the store
C6_Witness ==
    /\ res = Response(400, "Missing required parameters", 0, NoProgress)
    /\ Len(migrationJobs) = 1

\* C7: when StartMigration responds with the job id, processMigration of that job
\* waits at its first await and has issued no update call, the job is pending with
\* both counters 0, and every RecordStatus of the job is pending.
C7_StartDoesNotBlock ==
    [][res'.message = "started" =>
          LET j == res'.jobId
          IN  /\ res'.status = 200
              /\ j = Len(migrationJobs') /\ j = Len(migrationJobs) + 1
              /\ j \in DOMAIN proc'
              /\ proc'[j].pc = "awaitConfig"
              /\ proc'[j].calls = <<>>
              /\ migrationJobs'[j].status = "pending"
              /\ migrationJobs'[j].completedRecords = 0
              /\ migrationJobs'[j].failedRecords = 0
              /\ \A k \in getMigrationRecordStatuses(migrationRecordStatuses', j) :
                     migrationRecordStatuses'[k].status = "pending"]_vars

\* StartMigration has just answered with the id of a second job while the first one
\* is being processed
C7_Witness ==
    /\ res.message = "started" /\ res.jobId = 2
    /\ proc[1].pc \notin {"awaitConfig", "done"}

\* C8: an accepted StartMigration(oldValue, newValue, recordIds) adds exactly one job,
\* pending, with totalRecords = len(recordIds), both counters 0 and completedAt unset,
\* leaves the other jobs as they are, stores a pending RecordStatus without
\* errorMessage for each submitted id and touches no other RecordStatus, and writes
\* exactly one activity entry, of type info, while the job's processing has not yet
\* written any (it waits at its first await).
C8_StartCreatesJob ==
    [][Len(migrationJobs') # Len(migrationJobs) =>
          LET j == Len(migrationJobs) + 1
              items == proc'[j].recordIds
          IN  /\ Len(migrationJobs') = j
              /\ \A i \in JobIds : migrationJobs'[i] = migrationJobs[i]
              /\ Len(items) >= 1
              /\ migrationJobs'[j] =
                     [oldIp |-> proc'[j].oldIp, newIp |-> proc'[j].newIp,
                      totalRecords |-> Len(items), completedRecords |-> 0,
                      failedRecords |-> 0, status |-> "pending", completedAt |-> Null]
              /\ \A n \in 1..Len(items) :
                     /\ StatusId(j, items[n]) \in DOMAIN migrationRecordStatuses'
                     /\ migrationRecordStatuses'[StatusId(j, items[n])] =
                            [jobId |-> j, recordId |-> items[n], status |-> "pending",
                             errorMessage |-> Null]
              /\ \A k \in DOMAIN migrationRecordStatuses :
                     /\ k \in DOMAIN migrationRecordStatuses'
                     /\ migrationRecordStatuses'[k] = migrationRecordStatuses[k]
              /\ Len(activityLog') = Len(activityLog) + 1
              /\ SubSeq(activityLog', 2, Len(activityLog')) = activityLog
              /\ activityLog'[1].type = "info"
              /\ proc'[j].pc = "awaitConfig"]_vars

\* a job of two distinct records has just been created
C8_Witness ==
    /\ res.message = "started"
    /\ migrationJobs[res.jobId].totalRecords = 2
    /\ Cardinality(getMigrationRecordStatuses(migrationRecordStatuses, res.jobId)) = 2
    /\ activityLog[1].type = "info"

\* round-half-up of num / den, for num >= 0 and den >= 1
RoundHalfUp(num, den) == (2 * num + den) \div (2 * den)

\* C9: for every stored job GetProgress returns the job's totalRecords,
\* completedRecords, failedRecords and status, processingRecords = totalRecords -
\* completedRecords - failedRecords, and progressPercentage = round-half-up of
\* (completedRecords + failedRecords) / totalRecords * 100, with totalRecords >= 1.
C9_ProgressFormula ==
    res.message = "progress" =>
        LET job == migrationJobs[res.jobId]
            done == job.completedRecords + job.failedRecords
        IN  /\ job.totalRecords >= 1
            /\ res.progress.jobId = res.jobId
            /\ res.progress.totalRecords = job.totalRecords
            /\ res.progress.completedRecords = job.completedRecords
            /\ res.progress.failedRecords = job.failedRecords
            /\ res.progress.status = job.status
            /\ res.progress.processingRecords = job.totalRecords - done
            /\ res.progress.progressPercentage = RoundHalfUp(100 * done, job.totalRecords)

\* C10: a GetProgress call changes no job, RecordStatus, activity entry, cached
\* record, backup or configuration and moves no processing; what it returns is what
\* a call in the state it leaves returns, and a call that directly follows a call
\* for the same job returns the same snapshot.
C10_GetProgressReadOnly ==
    [][res'.message = "progress" =>
          /\ UNCHANGED <<apiConfiguration, heap, dnsRecords, migrationJobs,
                         migrationRecordStatuses, backups, activityLog, proc>>
          /\ res'.jobId \in DOMAIN migrationJobs'
          /\ res' = Response(200, "progress", res'.jobId,
                             Progress(res'.jobId, migrationJobs'[res'.jobId]))
          /\ (res.message = "progress" /\ res.jobId = res'.jobId) => res' = res]_vars

\* GetProgress has just answered for a job all of whose records are done but which
\* is still running
C10_Witness ==
    /\ res.message = "progress"
    /\ res.progress.status = "running"
    /\ res.progress.processingRecords = 0

\* C11: the job ids StartMigration has returned are exactly the ids of the stored
\* jobs, and no step removes a job; GetProgress for an id that was never returned
\* answers 404 and changes nothing, and GetProgress for an id that was returned
\* answers 200 with that job's snapshot, never 404.
C11_NotFoundOnlyForUnknown ==
    [][/\ Len(migrationJobs') >= Len(migrationJobs)
       /\ res'.message = "started" =>
              /\ res'.jobId \notin DOMAIN migrationJobs
              /\ res'.jobId \in DOMAIN migrationJobs'
       /\ res'.message = "Migration job not found" =>
              /\ res'.status = 404
              /\ \A jobId \in DOMAIN migrationJobs : ~GetProgress(jobId)
              /\ UNCHANGED <<apiConfiguration, heap, dnsRecords, migrationJobs,
                             migrationRecordStatuses, backups, activityLog, proc>>
       /\ res'.message = "progress" =>
              /\ res'.status = 200
              /\ res'.jobId \in DOMAIN migrationJobs
              /\ GetProgress(res'.jobId)]_vars

\* a query for an unknown id has just been answered while a finished job is stored
C11_Witness ==
    /\ res.status = 404
    /\ res.message = "Migration job not found"
    /\ \E j \in JobIds : Final(migrationJobs[j].status)

\* the RecordStatus entries of job j that are in this status
StatusesIn(j, status) ==
    {k \in getMigrationRecordStatuses(migrationRecordStatuses, j) :
        migrationRecordStatuses[k].status = status}

\* C12: in every state between two awaits of processMigration, which is every state
\* a concurrent reader can observe, each job's completedRecords is the number of its
\* RecordStatus entries in status completed and its failedRecords the number of its
\* RecordStatus entries in status failed.
C12_ReaderAtomicity ==
    \A j \in JobIds :
        /\ migrationJobs[j].completedRecords = Cardinality(StatusesIn(j, "completed"))
        /\ migrationJobs[j].failedRecords = Cardinality(StatusesIn(j, "failed"))

\* ------------------------------------------------------------- liveness
\* Every awaited call of processMigration returns: the continuation of each
\* activation that is suspended at an await is eventually run.
\* a job takes one unit of work and each of its records one more: no more than
\* MaxWork \div 2 jobs exist
MaxJobs == MaxWork \div 2

Fairness == \A j \in 1..MaxJobs : WF_vars(j \in DOMAIN proc /\ ProcessStep(j))

\* GetProgress is left out of the steps: it writes nothing but its response
NextLive ==
    \/ \E valid \in BOOLEAN : SaveConfig(valid)
    \/ \E listing \in Listings : \E ok \in BOOLEAN : ScanDns(listing, ok)
    \/ \E oldIp \in OldIps : \E newIp \in NewIps :
           \E recordIds \in RecordIdInputs(MaxWork - Work - 1) :
               StartMigration(oldIp, newIp, recordIds)
    \/ \E j \in DOMAIN proc : ProcessStep(j)

SpecLive == Init /\ [][NextLive]_vars /\ Fairness

\* C13: if every awaited store call and update call eventually returns, every job an
\* accepted StartMigration created eventually has status completed or failed; and no
\* operation pauses a job: as long as its processing has not returned, its next step
\* can be taken.
C13_EveryJobEnds ==
    /\ \A j \in 1..MaxJobs :
           (j \in JobIds) ~> (j \in JobIds /\ Final(migrationJobs[j].status))
    /\ [](Len(migrationJobs) <= MaxJobs)
    /\ [](\A j \in DOMAIN proc : proc[j].pc # "done" => ENABLED ProcessStep(j))

\* two jobs have ended, one completed and one failed, and both activations returned
C13_Witness ==
    /\ Len(migrationJobs) = 2
    /\ \A j \in JobIds : Final(migrationJobs[j].status) /\ proc[j].pc = "done"
    /\ migrationJobs[1].status # migrationJobs[2].status

\* the record processMigration of job j is working on
CurrentRecord(j) == proc[j].recordIds[proc[j].i]

\* C14: when the record id at hand is not in the cached listing, its RecordStatus
\* becomes failed with errorMessage "Record not found" and no update call is issued
\* for it; the failure is then counted (failed + 1, an error entry carrying the
\* message), persisted in the job's failedRecords, and the job goes on: to the next
\* record, or past the last one to status completed.
C14_MissingRecordFails ==
    [][\A j \in DOMAIN proc :
          proc'[j] # proc[j] =>
              /\ (/\ proc[j].pc = "awaitGetRecords"
                  /\ CurrentRecord(j) \notin DOMAIN heap[proc[j].allRecords]) =>
                     /\ migrationRecordStatuses'[StatusId(j, CurrentRecord(j))].status
                            = "failed"
                     /\ migrationRecordStatuses'[StatusId(j, CurrentRecord(j))].errorMessage
                            = "Record not found"
                     /\ proc'[j].calls = proc[j].calls
                     /\ proc'[j].pc = "awaitFailed"
                     /\ proc'[j].err = "Record not found"
              /\ proc[j].pc = "awaitFailed" =>
                     /\ proc'[j].failed = proc[j].failed + 1
                     /\ proc'[j].calls = proc[j].calls
                     /\ activityLog' =
                            <<Entry("error", "Failed to update DNS record", <<>>,
                                    <<ErrorText(proc[j].err)>>)>> \o activityLog
                     /\ proc'[j].pc = "awaitLogError"
              /\ proc[j].pc = "awaitLogError" =>
                     /\ migrationJobs'[j].failedRecords = proc[j].failed
                     /\ migrationJobs'[j].status = "running"
                     /\ proc'[j].pc = "awaitProgress"
              /\ proc[j].pc = "awaitProgress" =>
                     IF proc[j].i < Len(proc[j].recordIds)
                     THEN /\ proc'[j].i = proc[j].i + 1
                          /\ proc'[j].pc = "awaitProcessing"
                     ELSE /\ migrationJobs'[j].status = "completed"
                          /\ proc'[j].pc = "awaitJobCompleted"]_vars

\* the first record of a job was missing and the update call for its second record
\* has been issued
C14_Witness ==
    \E j \in DOMAIN proc :
        /\ proc[j].missing = 1
        /\ proc[j].i = 2
        /\ Len(proc[j].calls) = 1
        /\ migrationRecordStatuses[StatusId(j, proc[j].recordIds[1])].errorMessage
               = "Record not found"

\* ------------------------------------------------- a long activity log
\* The state after POST /api/config and LogPrefill scans, the odd ones listing no
\* record and the even ones failing; scans counts the scans made after this state.
LogPrefill == 98

PrefillEntry(k) ==
    IF k % 2 = 1
    THEN Entry("success", "Scanned DNS records", <<0>>, <<>>)
    ELSE Entry("error", "DNS scan failed", <<>>, <<>>)

LimitQueries ==
    {[present |-> FALSE, value |-> 0]} \cup [present : {TRUE}, value : {0, 100, 150}]

InitLog ==
    /\ apiConfiguration = TRUE
    /\ heap = [g \in 1..(1 + (LogPrefill + 1) \div 2) |-> <<>>]
    /\ dnsRecords = Len(heap)
    /\ migrationJobs = <<>>
    /\ migrationRecordStatuses = <<>>
    /\ backups = <<>>
    /\ activityLog = [p \in 1..LogPrefill |-> PrefillEntry(LogPrefill + 1 - p)]
    /\ proc = <<>>
    /\ res = NoResponse
    /\ scans = 0
    /\ remote = [r \in RecordIds |-> "10.0.0.1"]

NextLog ==
    \/ \E listing \in Listings : \E ok \in BOOLEAN : ScanDns(listing, ok)
    \/ \E query \in LimitQueries : GetActivity(query)

SpecLog == InitLog /\ [][NextLog]_vars

\* the smaller of two numbers
Min(a, b) == IF a < b THEN a ELSE b

\* C15: the activity log never holds more than 100 entries. Every write puts the new
\* entry first and keeps the entries before it in their order, dropping the oldest
\* one when there would be 101: so the log holds exactly the min(100, number written)
\* most recently written entries, newest first. GetActivityLog(limit), limit >= 0,
\* returns the first min(limit, size) entries of the log, in the log's order, and
\* changes nothing.
C15_LogCappedNewestFirst ==
    /\ [](/\ Len(activityLog) = Min(100, LogPrefill + scans)
          /\ \A p \in (scans + 1)..Len(activityLog) :
                 activityLog[p] = PrefillEntry(LogPrefill + scans + 1 - p))
    /\ [][activityLog' # activityLog =>
              /\ Len(activityLog') = Min(100, Len(activityLog) + 1)
              /\ \A p \in 2..Len(activityLog') : activityLog'[p] = activityLog[p - 1]]_vars
    /\ [][res'.message = "activity" =>
              LET limit == res'.progress.limit
                  entries == res'.progress.entries
              IN  /\ limit >= 0
                  /\ Len(entries) = Min(limit, Len(activityLog))
                  /\ \A p \in 1..Len(entries) : entries[p] = activityLog[p]
                  /\ activityLog' = activityLog]_vars

\* more than 100 entries have been written and GetActivityLog(150) has just returned
\* 100 entries, the newest one a scan that listed two records
C15_Witness ==
    /\ LogPrefill + scans > 100
    /\ res.message = "activity"
    /\ res.progress.limit = 150
    /\ Len(res.progress.entries) = 100
    /\ res.progress.entries[1] = Entry("success", "Scanned DNS records", <<2>>, <<>>)

\* the positions of the activity log whose entry has this message
EntriesWith(message) ==
    {p \in 1..Len(activityLog) : activityLog[p].message = message}

\* C16: when one job of n records is the only job, its processing started with
\* credentials and has returned, the log holds exactly n + 2 entries besides the
\* entries of the scans: one info entry of the submission, one success entry per
\* completed record and one error entry per failed record, as many as the job's final
\* completedRecords and failedRecords, and one success summary entry that carries
\* these two counts.
C16_EntriesPerJob ==
    (Len(migrationJobs) = 1 /\ proc[1].config /\ proc[1].pc = "done") =>
        LET job == migrationJobs[1]
        IN  /\ Len(activityLog) - scans = job.totalRecords + 2
            /\ Cardinality(EntriesWith("Starting migration for DNS records")) = 1
            /\ Cardinality(EntriesWith("Updated DNS record for")) = job.completedRecords
            /\ Cardinality(EntriesWith("Failed to update DNS record")) = job.failedRecords
            /\ Cardinality(EntriesWith("Migration completed")) = 1
            /\ job.completedRecords + job.failedRecords = job.totalRecords
            /\ \A p \in EntriesWith("Starting migration for DNS records") :
                   activityLog[p].type = "info"
            /\ \A p \in EntriesWith("Updated DNS record for") :
                   activityLog[p].type = "success"
            /\ \A p \in EntriesWith("Failed to update DNS record") :
                   activityLog[p].type = "error"
            /\ \A p \in EntriesWith("Migration completed") :
                   /\ activityLog[p].type = "success"
                   /\ activityLog[p].nums = <<job.completedRecords, job.failedRecords>>

\* the only job, of two records, has returned with one record completed and one
\* failed, after one scan
C16_Witness ==
    /\ Len(migrationJobs) = 1 /\ proc[1].config /\ proc[1].pc = "done"
    /\ scans = 1
    /\ Cardinality(EntriesWith("Updated DNS record for")) = 1
    /\ Cardinality(EntriesWith("Failed to update DNS record")) = 1
    /\ Len(activityLog) = 5

\* the status of the RecordStatus of job j's record at list position n
StatusAt(j, n) == migrationRecordStatuses[StatusId(j, proc[j].recordIds[n])].status

\* job j is between marking the record at proc[j].i processing and marking it
\* completed or failed
Processing(j) ==
    proc[j].pc \in {"awaitProcessing", "awaitGetRecords", "awaitUpdateCall",
                    "awaitSaveRecords"}

\* C17: within one job at most one update call is outstanding and at most one
\* RecordStatus is in status processing; whenever the record at position k is
\* processing, the record at every earlier position is completed or failed and the
\* record at every later position is pending.
C17_OneAtATimeInOrder ==
    \A j \in DOMAIN proc :
        /\ CallsWith(j, "pending") <= 1
        /\ Cardinality(StatusesIn(j, "processing")) <= 1
        /\ Processing(j) =>
               /\ StatusAt(j, proc[j].i) = "processing"
               /\ \A n \in 1..(proc[j].i - 1) : StatusAt(j, n) \in {"completed", "failed"}
               /\ \A n \in (proc[j].i + 1)..Len(proc[j].recordIds) :
                      StatusAt(j, n) = "pending"

\* C18: the log keeps the order of writing (each write puts its entry first and
\* leaves the older entries in their order), and a job writes its entries in the
\* order of processing whatever else is written in between: the info entry when the
\* job is created, then for each list position in turn one entry, the one for
\* position i being the job's i-th (written when i - 1 records are counted), then,
\* after the last position, the summary; nothing after that.
C18_EntriesInProcessingOrder ==
    [][/\ \/ activityLog' = activityLog
          \/ \A p \in 2..Len(activityLog') : activityLog'[p] = activityLog[p - 1]
       /\ \A j \in DOMAIN proc' \ DOMAIN proc :
              /\ Len(activityLog') = Len(activityLog) + 1
              /\ activityLog'[1].message = "Starting migration for DNS records"
              /\ proc'[j].i = 0
       /\ \A j \in DOMAIN proc :
              /\ proc'[j].i >= proc[j].i
              /\ (proc'[j] # proc[j] /\ activityLog' # activityLog) =>
                     LET q == proc[j]
                         e == activityLog'[1]
                     IN  /\ Len(activityLog') = Len(activityLog) + 1
                         /\ \/ /\ q.pc = "awaitCompleted"
                               /\ e.message = "Updated DNS record for"
                               /\ e.nums = <<q.recordIds[q.i]>>
                               /\ q.completed + q.failed = q.i - 1
                               /\ proc'[j].completed + proc'[j].failed = q.i
                            \/ /\ q.pc = "awaitFailed"
                               /\ e.message = "Failed to update DNS record"
                               /\ q.completed + q.failed = q.i - 1
                               /\ proc'[j].completed + proc'[j].failed = q.i
                            \/ /\ q.pc = "awaitJobCompleted"
                               /\ e.message = "Migration completed"
                               /\ q.i = Len(q.recordIds) + 1
                               /\ q.completed + q.failed = Len(q.recordIds)
                            \/ /\ q.pc = "awaitJobFailed"
                               /\ e.message = "Migration failed"
                               /\ q.i = 0]_vars

\* the newest entry is a job's summary and the one before it the start entry of
\* another job, written between the first job's record entry and its summary
C18_Witness ==
    /\ Len(migrationJobs) = 2
    /\ Len(activityLog) >= 3
    /\ activityLog[1].message = "Migration completed"
    /\ activityLog[2].message = "Starting migration for DNS records"
    /\ activityLog[3].message \in {"Updated DNS record for", "Failed to update DNS record"}

\* C19: in the step in which processMigration sets the RecordStatus of the record at
\* position k + 1 to processing, the job's stored completedRecords + failedRecords
\* is k, the number of records already processed; in the step in which it sets the
\* job to completed, the stored sum is totalRecords.
C19_CountersPersistedPerRecord ==
    [][\A j \in DOMAIN proc :
          proc'[j] # proc[j] =>
              /\ proc'[j].pc = "awaitProcessing" =>
                     /\ migrationRecordStatuses'[StatusId(j, proc'[j].recordIds[proc'[j].i])].status
                            = "processing"
                     /\ migrationJobs'[j].completedRecords + migrationJobs'[j].failedRecords
                            = proc'[j].i - 1
              /\ proc'[j].pc = "awaitJobCompleted" =>
                     /\ migrationJobs'[j].status = "completed"
                     /\ migrationJobs[j].status = "running"
                     /\ migrationJobs'[j].completedRecords + migrationJobs'[j].failedRecords
                            = migrationJobs'[j].totalRecords]_vars

\* the second record of a job has just been marked processing with one record stored
\* as completed
C19_Witness ==
    \E j \in DOMAIN proc :
        /\ proc[j].pc = "awaitProcessing"
        /\ proc[j].i = 2
        /\ migrationJobs[j].completedRecords = 1
        /\ migrationJobs[j].failedRecords = 0

\* C20: for every job in every reachable state, completedAt is set if and only if
\* the job's status is completed or failed.
C20_CompletedAtIffFinal ==
    \A j \in JobIds :
        (migrationJobs[j].completedAt # Null) <=> Final(migrationJobs[j].status)

\* one job has failed and has its completedAt, another is running and has none
C20_Witness ==
    /\ \E j \in JobIds :
           migrationJobs[j].status = "failed" /\ migrationJobs[j].completedAt = DateSet
    /\ \E j \in JobIds :
           migrationJobs[j].status = "running" /\ migrationJobs[j].completedAt = Null


\* C21: in every reachable state, every RecordStatus has a non-null errorMessage
\* if and only if its status is failed, whatever message the error carried (an
\* empty or missing message is stored as 'Unknown error')
C21_ErrorMessageIffFailed ==
    \A k \in DOMAIN migrationRecordStatuses :
        /\ migrationRecordStatuses[k].errorMessage # Null
               <=> migrationRecordStatuses[k].status = "failed"
        /\ migrationRecordStatuses[k].errorMessage # ""

\* a record failed by an update call whose error carried no message
C21_Witness ==
    \E j \in JobIds :
        /\ proc[j].pc = "awaitFailed"
        /\ proc[j].err = ""
        /\ CallsWith(j, "error") > 0
        /\ LET s == migrationRecordStatuses[StatusId(j, proc[j].recordIds[proc[j].i])]
           IN  s.status = "failed" /\ s.errorMessage = "Unknown error"


\* C22: no automatic retry: a job issues at most one update call per processed
\* list position, a record whose update call failed is not called again by that
\* job, and a job that reached failed is never restarted (its status stays
\* failed and its processing run, once over, takes no further step)
C22_NoRetry ==
    [][\A j \in JobIds :
           LET q == proc'[j]
           IN  /\ Len(q.calls) + q.missing <= q.i
               /\ \A a, b \in 1..Len(q.calls) :
                      a < b /\ q.calls[a].outcome = "error"
                          => q.calls[b].recordId # q.calls[a].recordId
               /\ migrationJobs[j].status = "failed"
                      => migrationJobs'[j].status = "failed"
               /\ proc[j].pc = "done" => proc'[j] = proc[j]]_vars


\* the cached listing: the records the Map holds, by id
Cache == getDnsRecords(heap, dnsRecords)

\* every record of job j whose RecordStatus is completed, and the record whose
\* update call has just succeeded, is cached with the new value
CompletedAreCached(j) ==
    LET updated == IF proc[j].pc = "awaitSaveRecords"
                   THEN {proc[j].recordIds[proc[j].i]} ELSE {}
        completed == {migrationRecordStatuses[k].recordId :
                          k \in StatusesIn(j, "completed")}
    IN  \A recordId \in completed \cup updated :
            /\ recordId \in DOMAIN Cache
            /\ Cache[recordId].content = migrationJobs[j].newIp

\* C23: for a single job with no concurrent scan: a successful update call gives
\* the cached record content = newValue and leaves its other fields and every
\* other cached record unchanged; a failed call or a missing record leaves the
\* cached listing unchanged; and as long as no scan replaces the listing, every
\* record whose RecordStatus is completed is cached with content = newValue
C23_SingleJobCacheFrame ==
    [][Len(migrationJobs') = 1 /\ Len(heap') = Len(heap) =>
           /\ (proc # <<>> /\ proc[1].pc = "awaitUpdateCall"
                   /\ proc'[1].pc = "awaitSaveRecords"
                   /\ proc[1].allRecords = dnsRecords) =>
                  LET recordId == proc[1].recordIds[proc[1].i]
                  IN  Cache' = [Cache EXCEPT ![recordId].content = proc[1].newIp]
           /\ (proc # <<>> /\ proc[1].pc \in {"awaitGetRecords", "awaitUpdateCall"}
                   /\ proc'[1].pc = "awaitFailed") =>
                  Cache' = Cache
           /\ (migrationJobs # <<>> /\ CompletedAreCached(1)) => CompletedAreCached(1)']_vars

\* a single job has ended after one record was migrated in a listing of two: the
\* migrated record is cached with the new value, the other one with its old content
C23_Witness ==
    /\ Len(migrationJobs) = 1
    /\ proc[1].pc = "done"
    /\ Len(heap) = 2
    /\ \E k \in StatusesIn(1, "completed") :
           LET recordId == migrationRecordStatuses[k].recordId
           IN  /\ Cache[recordId] = Snapshot(recordId, "10.0.0.2")
               /\ \E other \in DOMAIN Cache \ {recordId} :
                      Cache[other] = Snapshot(other, "10.0.0.1")


\* C24: records are updated unconditionally: for every submitted id found in the
\* listing the job read, the job issues the update call with content = newValue
\* and the snapshot's own zoneId, id, type, name, ttl and proxied, whatever the
\* record's current content; a record whose call succeeded is marked completed and
\* only a missing record or a rejected call marks it failed, so oldValue decides
\* none of these
C24_UpdateUnconditional ==
    [][\A j \in DOMAIN proc :
           proc'[j] # proc[j] =>
               LET q == proc[j]
                   recordId == q.recordIds[q.i]
                   listing == heap[q.allRecords]
                   status == migrationRecordStatuses'[StatusId(j, recordId)].status
               IN  /\ (q.pc = "awaitGetRecords" /\ recordId \in DOMAIN listing) =>
                          LET call == proc'[j].calls[Len(proc'[j].calls)]
                              record == listing[recordId]
                          IN  /\ proc'[j].pc = "awaitUpdateCall"
                              /\ Len(proc'[j].calls) = Len(q.calls) + 1
                              /\ call.recordId = recordId
                              /\ call.content = migrationJobs[j].newIp
                              /\ call.zoneId = record.zoneId
                              /\ call.type = record.type
                              /\ call.name = record.name
                              /\ call.ttl = record.ttl
                              /\ call.proxied = record.proxied
                              /\ status = "processing"
                   /\ (q.pc = "awaitGetRecords" /\ recordId \notin DOMAIN listing) =>
                          status = "failed"
                   /\ q.pc = "awaitUpdateCall" =>
                          \/ proc'[j].pc = "awaitSaveRecords" /\ status = "processing"
                          \/ proc'[j].pc = "awaitFailed" /\ status = "failed"
                   /\ q.pc = "awaitSaveRecords" => status = "completed"]_vars

\* a record whose cached content differs from the job's oldValue has been called
\* with the new value, and completed
C24_Witness ==
    \E j \in JobIds :
        /\ proc[j].pc = "awaitCompleted"
        /\ CallsWith(j, "ok") = 2
        /\ proc[j].calls[1].recordId = proc[j].calls[2].recordId
        /\ proc[j].oldIp = "10.0.0.1"
        /\ proc[j].calls[2].content = "10.0.0.2"
        /\ migrationRecordStatuses[StatusId(j, CurrentRecord(j))].status = "completed"


\* ------------------------------------------------- every exposed operation
\* the listing of the scans of this specification: every record, not yet migrated
FullListing == [r \in RecordIds |-> Snapshot(r, "10.0.0.1")]

\* the operations on the store with well-formed requests: configuration, scan,
\* start, processing, progress, and the activity-log and backup endpoints
NextOps ==
    \/ SaveConfig(TRUE)
    \/ ScanDns(FullListing, TRUE)
    \/ \E items \in SeqsUpTo(RecordIds, MaxWork - Work - 1) \ {<<>>} :
           StartMigration("10.0.0.1", "10.0.0.2", [isArray |-> TRUE, items |-> items])
    \/ \E j \in DOMAIN proc : ProcessStep(j)
    \/ \E jobId \in 1..(Len(migrationJobs) + 1) : GetProgress(jobId)
    \/ GetActivity([present |-> FALSE, value |-> 0])
    \/ ClearActivity
    \/ CreateBackup(TRUE, {})

SpecOps == Init /\ [][NextOps]_vars

\* C25: the activity log is append-only: under every operation, each entry of the
\* log stays in it, unchanged and behind every newer entry, unless it is the
\* oldest of 100 entries when a new one is written
C25_LogAppendOnly ==
    [][\/ activityLog' = activityLog
       \/ /\ Len(activityLog') = Min(Len(activityLog) + 1, MaxLogEntries)
          /\ \A p \in 1..Len(activityLog) :
                 p < MaxLogEntries => activityLog'[p + 1] = activityLog[p]]_vars


\* C26: every job has exactly one RecordStatus per submitted id, so the number of
\* its RecordStatus entries equals its totalRecords, and once the job is completed
\* the number of its entries in status completed or failed equals
\* completedRecords + failedRecords
C26_OneStatusPerSubmittedId ==
    \A j \in JobIds :
        LET entries == getMigrationRecordStatuses(migrationRecordStatuses, j)
            job == migrationJobs[j]
        IN  /\ \A n \in 1..Len(proc[j].recordIds) :
                   StatusId(j, proc[j].recordIds[n]) \in entries
            /\ Cardinality(entries) = job.totalRecords
            /\ job.status = "completed" =>
                   Cardinality(StatusesIn(j, "completed") \cup StatusesIn(j, "failed"))
                       = job.completedRecords + job.failedRecords


\* the RecordStatus entries of job j
StatusesOf(statuses, j) ==
    [k \in getMigrationRecordStatuses(statuses, j) |-> statuses[k]]

\* C27: single-writer frame: no job is ever deleted, a job's totalRecords,
\* oldValue and newValue never change, and a step that changes a job's Job entry
\* or its RecordStatus entries is a step of that job's own processing run, so
\* progress reads, activity-log reads and clears, scans, backups, new jobs and
\* the processing of any other job leave them unchanged
C27_SingleWriterFrame ==
    [][/\ Len(migrationJobs') >= Len(migrationJobs)
       /\ \A j \in JobIds :
              /\ migrationJobs'[j].totalRecords = migrationJobs[j].totalRecords
              /\ migrationJobs'[j].oldIp = migrationJobs[j].oldIp
              /\ migrationJobs'[j].newIp = migrationJobs[j].newIp
              /\ (\/ migrationJobs'[j] # migrationJobs[j]
                  \/ StatusesOf(migrationRecordStatuses', j)
                         # StatusesOf(migrationRecordStatuses, j)) =>
                     /\ ProcessStep(j)
                     /\ \A other \in JobIds \ {j} :
                            /\ migrationJobs'[other] = migrationJobs[other]
                            /\ StatusesOf(migrationRecordStatuses', other)
                                   = StatusesOf(migrationRecordStatuses, other)]_vars

\* two jobs cover the same record id; the second has run to its end while the
\* first, not yet processed, still has its Job entry and RecordStatus as created
C27_Witness ==
    /\ Len(migrationJobs) = 2
    /\ proc[1].recordIds = proc[2].recordIds
    /\ proc[2].pc = "done"
    /\ proc[1].pc = "awaitConfig"
    /\ migrationJobs[1] = createMigrationJob(proc[1].oldIp, proc[1].newIp, 1)
    /\ migrationRecordStatuses[StatusId(1, proc[1].recordIds[1])]
           = InitialStatuses(1, proc[1].recordIds)[1]
    /\ StatusesIn(2, "failed") # {}


\* ------------------------------------------------- a job over a long list
LongList == 201

\* the state after a scan that listed n records and the start of a job over all
\* of them, in listing order
InitBatch(n) ==
    LET ids == [k \in 1..n |-> k]
    IN  /\ apiConfiguration = TRUE
        /\ heap = << <<>>, [r \in 1..n |-> Snapshot(r, "10.0.0.1")] >>
        /\ dnsRecords = 2
        /\ migrationJobs = <<createMigrationJob("10.0.0.1", "10.0.0.2", n)>>
        /\ migrationRecordStatuses =
               [k \in {StatusId(1, ids[m]) : m \in 1..n} |->
                   InitialStatuses(1, ids)[k[2]]]
        /\ backups = <<>>
        /\ activityLog =
               addActivityLogEntry(
                   addActivityLogEntry(<<>>,
                       Entry("success", "Scanned DNS records", <<n>>, <<>>)),
                   Entry("info", "Starting migration for DNS records", <<n>>,
                         <<"10.0.0.1", "10.0.0.2">>))
        /\ proc = <<NewProc(ids, "10.0.0.1", "10.0.0.2", TRUE)>>
        /\ res = Response(200, "started", 1, NoProgress)
        /\ scans = 1
        /\ remote = [r \in 1..n |-> "10.0.0.1"]

InitLongList == InitBatch(LongList)

SpecLongList == InitLongList /\ [][NextProgress]_vars

\* C28: GetProgress never reports a finished-looking job early: with
\* totalRecords >= 1 and completedRecords + failedRecords <= totalRecords, the
\* reported progressPercentage lies in 0..100 and is 100 only when
\* completedRecords + failedRecords = totalRecords, that is, never while
\* processingRecords > 0
C28_NoEarlyHundred ==
    res.message = "progress" =>
        LET p == res.progress
        IN  (p.totalRecords >= 1
                 /\ p.completedRecords + p.failedRecords <= p.totalRecords) =>
                /\ p.progressPercentage \in 0..100
                /\ p.progressPercentage = 100 =>
                       /\ p.completedRecords + p.failedRecords = p.totalRecords
                       /\ p.processingRecords = 0


\* C29: a write-back does not undo a concurrent scan: when a scan has saved a new
\* listing since the job read its own and the job's update call then succeeds,
\* the cached listing after the write-back is still the scanned listing, with at
\* most the migrated record's content changed
C29_WriteBackKeepsScan ==
    [][\A j \in DOMAIN proc :
           (/\ proc[j].pc = "awaitUpdateCall"
            /\ proc'[j].pc = "awaitSaveRecords"
            /\ dnsRecords > proc[j].allRecords) =>
               LET recordId == proc[j].recordIds[proc[j].i]
               IN  \/ Cache' = Cache
                   \/ /\ recordId \in DOMAIN Cache
                      /\ Cache' = [Cache EXCEPT ![recordId].content = proc[j].newIp]]_vars


\* ------------------------------------------------- overlapping jobs
\* the new values of the jobs of this specification
OverlapNewIps == {"10.0.0.2", "10.0.0.3"}

\* the state after POST /api/config and one scan that listed every record; scans
\* counts the scans made after this state
InitOverlap ==
    /\ apiConfiguration = TRUE
    /\ heap = << <<>>, FullListing >>
    /\ dnsRecords = 2
    /\ migrationJobs = <<>>
    /\ migrationRecordStatuses = <<>>
    /\ backups = <<>>
    /\ activityLog = addActivityLogEntry(<<>>,
           Entry("success", "Scanned DNS records", <<Cardinality(RecordIds)>>, <<>>))
    /\ proc = <<>>
    /\ res = NoResponse
    /\ scans = 0
    /\ remote = [r \in RecordIds |-> "10.0.0.1"]

\* jobs over one record each, started at any time, their processing steps
\* interleaved, the provider serving each update call at some time before its
\* response is handled
NextOverlap ==
    \/ \E newIp \in OverlapNewIps : \E recordId \in RecordIds :
           StartMigration("10.0.0.1", newIp, [isArray |-> TRUE, items |-> <<recordId>>])
    \/ \E j \in DOMAIN proc : ProcessStep(j)
    \/ \E j \in DOMAIN proc : ProviderApplies(j)

SpecOverlap == InitOverlap /\ [][NextOverlap]_vars

\* C30: cache/remote agreement under overlapping jobs: when two jobs with
\* different newValues both had a successful update call for the same record and
\* both have finished, the cached content of that record is the content the
\* provider holds for it (the value of the update it applied last)
C30_CacheAgreesWithRemote ==
    \A a, b \in JobIds : \A recordId \in RecordIds :
        (/\ a # b
         /\ migrationJobs[a].newIp # migrationJobs[b].newIp
         /\ proc[a].pc = "done" /\ proc[b].pc = "done"
         /\ \A j \in {a, b} : \E n \in 1..Len(proc[j].calls) :
                proc[j].calls[n].recordId = recordId /\ proc[j].calls[n].outcome = "ok")
            => /\ recordId \in DOMAIN Cache
               /\ Cache[recordId].content = remote[recordId]

====
